---- MODULE Spec2Model ----
(***************************************************************************)
(* Structural layout resolution of src/src/renderers.tsx: list item        *)
(* markers (renderers.li, toRoman) and table grid resolution (getRows,     *)
(* getMaxColumns, renderCell, renderers.table).                            *)
(*                                                                         *)
(* Strings are sequences of one-character strings, so that parseInt,       *)
(* String.includes, the url regex and toLowerCase/toUpperCase are computed *)
(* rather than assumed.                                                    *)
(***************************************************************************)
EXTENDS Integers, Sequences, FiniteSets, TLC

VARIABLES
    pc,        \* position of the computation under way
    listDoc,   \* the parsed tree around a list: ancestors, siblings, styles
    liIndex,   \* position (in the parent's children) of the rendered li
    liOut,     \* marker produced by renderers.li
    tableDoc,  \* the parsed tree of a table (or of cells without a table)
    colsOut,   \* value returned by getMaxColumns
    tableOut,  \* overrides computed by renderers.table
    cellOut,   \* results of renderCell, one per cell, in document order
    rInput,    \* argument of toRoman
    rNum,      \* toRoman: num
    rEntry,    \* toRoman: index of the conversationMap entry being visited
    rQuot,     \* toRoman: quotient
    rResult    \* toRoman: result

vars ==
    <<pc, listDoc, liIndex, liOut, tableDoc, colsOut, tableOut, cellOut,
      rInput, rNum, rEntry, rQuot, rResult>>

----------------------------------------------------------------------------
(* Bounds of the model                                                     *)

MaxSiblings == 3

MaxRows == 2

MaxCells == 2

MaxRoman == 12

MaxNegRoman == 3

MaxStrLen == 8

----------------------------------------------------------------------------
(* JavaScript values                                                       *)

Undef == [t |-> "undef", n |-> 0, s |-> <<>>]

Num(x) == [t |-> "num", n |-> x, s |-> <<>>]

Str(x) == [t |-> "str", n |-> 0, s |-> x]

Truthy(v) ==
    CASE v.t = "undef" -> FALSE
      [] v.t = "num" -> v.n # 0
      [] OTHER -> v.s # <<>>

NaN == [nan |-> TRUE, val |-> 0]

Int10(x) == [nan |-> FALSE, val |-> x]

Digits == <<"0", "1", "2", "3", "4", "5", "6", "7", "8", "9">>

IsDigit(c) == \E i \in 1..10 : Digits[i] = c

DigitVal(c) == (CHOOSE i \in 1..10 : Digits[i] = c) - 1

RECURSIVE DigitRun(_, _)
DigitRun(s, acc) ==
    IF s = <<>> \/ ~IsDigit(Head(s))
    THEN acc
    ELSE DigitRun(Tail(s), acc * 10 + DigitVal(Head(s)))

RECURSIVE SkipSpace(_)
SkipSpace(s) ==
    IF s # <<>> /\ Head(s) = " " THEN SkipSpace(Tail(s)) ELSE s

ParseUnsigned(s) ==
    IF s = <<>> \/ ~IsDigit(Head(s)) THEN NaN ELSE Int10(DigitRun(s, 0))

\* parseInt(attr, 10); an absent attribute is undefined, which parses to NaN
ParseInt(attr) ==
    IF attr.t # "str"
    THEN NaN
    ELSE LET s == SkipSpace(attr.s)
         IN  IF s # <<>> /\ Head(s) = "-"
             THEN LET u == ParseUnsigned(Tail(s))
                  IN  IF u.nan THEN NaN ELSE Int10(0 - u.val)
             ELSE IF s # <<>> /\ Head(s) = "+"
                  THEN ParseUnsigned(Tail(s))
                  ELSE ParseUnsigned(s)

\* String.prototype.includes
Includes(s, sub) ==
    \E i \in 0..(Len(s) - Len(sub)) :
        \A j \in 1..Len(sub) : s[i + j] = sub[j]

Lower ==
    <<"a", "b", "c", "d", "e", "f", "g", "h", "i", "j", "k", "l", "m",
      "n", "o", "p", "q", "r", "s", "t", "u", "v", "w", "x", "y", "z">>

Upper ==
    <<"A", "B", "C", "D", "E", "F", "G", "H", "I", "J", "K", "L", "M",
      "N", "O", "P", "Q", "R", "S", "T", "U", "V", "W", "X", "Y", "Z">>

ToLowerCase(s) ==
    [i \in 1..Len(s) |->
        IF \E k \in 1..26 : Upper[k] = s[i]
        THEN Lower[CHOOSE k \in 1..26 : Upper[k] = s[i]]
        ELSE s[i]]

ToUpperCase(s) ==
    [i \in 1..Len(s) |->
        IF \E k \in 1..26 : Lower[k] = s[i]
        THEN Upper[CHOOSE k \in 1..26 : Lower[k] = s[i]]
        ELSE s[i]]

\* a style mapping is a function from some property names to values
GetProp(m, k) == IF k \in DOMAIN m THEN m[k] ELSE Undef

\* style.reduce((combined, s) => Object.assign(combined, s), {})
RECURSIVE MergeStyles(_)
MergeStyles(cascade) ==
    IF cascade = <<>>
    THEN <<>>
    ELSE LET n == Len(cascade)
         IN  cascade[n] @@ MergeStyles(SubSeq(cascade, 1, n - 1))

----------------------------------------------------------------------------
(* toRoman                                                                 *)

conversationMap ==
    << [decimal |-> 1000, roman |-> <<"M">>],
       [decimal |-> 900, roman |-> <<"C", "M">>],
       [decimal |-> 500, roman |-> <<"D">>],
       [decimal |-> 400, roman |-> <<"C", "D">>],
       [decimal |-> 100, roman |-> <<"C">>],
       [decimal |-> 90, roman |-> <<"X", "C">>],
       [decimal |-> 50, roman |-> <<"L">>],
       [decimal |-> 40, roman |-> <<"X", "L">>],
       [decimal |-> 10, roman |-> <<"X">>],
       [decimal |-> 9, roman |-> <<"I", "X">>],
       [decimal |-> 5, roman |-> <<"V">>],
       [decimal |-> 4, roman |-> <<"I", "V">>],
       [decimal |-> 1, roman |-> <<"I">>] >>

\* BigInt division truncates toward zero
BigIntDiv(a, b) == IF a >= 0 THEN a \div b ELSE 0 - ((0 - a) \div b)

\* the remainder operator takes the sign of the dividend
JsRem(a, b) == a - b * BigIntDiv(a, b)

RECURSIVE Repeat(_, _)
Repeat(s, q) == IF q = 0 THEN <<>> ELSE s \o Repeat(s, q - 1)

\* the value toRoman returns when every while loop ends
RECURSIVE ToRomanFrom(_, _)
ToRomanFrom(num, i) ==
    IF i > Len(conversationMap)
    THEN <<>>
    ELSE LET e == conversationMap[i]
         IN  Repeat(e.roman, BigIntDiv(num, e.decimal))
                 \o ToRomanFrom(JsRem(num, e.decimal), i + 1)

toRoman(num) == ToRomanFrom(num, 1)

\* conversationMap.forEach callback, up to the while loop
RomanForEach ==
    /\ pc = "forEach"
    /\ rEntry <= Len(conversationMap)
    /\ rQuot' = BigIntDiv(rNum, conversationMap[rEntry].decimal)
    /\ rNum' = JsRem(rNum, conversationMap[rEntry].decimal)
    /\ pc' = "while"
    /\ UNCHANGED <<listDoc, liIndex, liOut, tableDoc, colsOut, tableOut,
                   cellOut, rInput, rEntry, rResult>>

\* while (quotient--) { result += roman }, one iteration; a string longer
\* than the engine allows raises RangeError
RomanWhileBody ==
    /\ pc = "while"
    /\ rQuot # 0
    /\ rQuot' = rQuot - 1
    /\ IF Len(rResult) + Len(conversationMap[rEntry].roman) > MaxStrLen
       THEN /\ pc' = "threw"
            /\ UNCHANGED rResult
       ELSE /\ rResult' = rResult \o conversationMap[rEntry].roman
            /\ UNCHANGED pc
    /\ UNCHANGED <<listDoc, liIndex, liOut, tableDoc, colsOut, tableOut,
                   cellOut, rInput, rNum, rEntry>>

\* the while test fails: next entry, or return result after the last one
RomanWhileExit ==
    /\ pc = "while"
    /\ rQuot = 0
    /\ rQuot' = rQuot - 1
    /\ rEntry' = rEntry + 1
    /\ pc' = IF rEntry = Len(conversationMap) THEN "returned" ELSE "forEach"
    /\ UNCHANGED <<listDoc, liIndex, liOut, tableDoc, colsOut, tableOut,
                   cellOut, rInput, rNum, rResult>>

----------------------------------------------------------------------------
(* Strings of the style sheets                                             *)

sNone == <<"n", "o", "n", "e">>

sUrlOpen == <<"u", "r", "l", "(">>

sDecimal == <<"d", "e", "c", "i", "m", "a", "l">>

sLowerAlpha == <<"l", "o", "w", "e", "r", "-", "a", "l", "p", "h", "a">>

sLowerLatin == <<"l", "o", "w", "e", "r", "-", "l", "a", "t", "i", "n">>

sUpperAlpha == <<"u", "p", "p", "e", "r", "-", "a", "l", "p", "h", "a">>

sUpperLatin == <<"u", "p", "p", "e", "r", "-", "l", "a", "t", "i", "n">>

sLowerRoman == <<"l", "o", "w", "e", "r", "-", "r", "o", "m", "a", "n">>

sUpperRoman == <<"u", "p", "p", "e", "r", "-", "r", "o", "m", "a", "n">>

sUrlPng == <<"u", "r", "l", "(", "a", ".", "p", "n", "g", ")">>

sUrlQuoted == <<"u", "r", "l", "(", "'", "a", "'", ")">>

sUrlUnclosed == <<"u", "r", "l", "(", "a">>

sSquare == <<"s", "q", "u", "a", "r", "e">>

sInsideNone == <<"i", "n", "s", "i", "d", "e", " ", "n", "o", "n", "e">>

----------------------------------------------------------------------------
(* Tree navigation supplied by the parser                                  *)

NoElement == [null |-> TRUE, tag |-> "", start |-> Undef]

Element(tag, start) == [null |-> FALSE, tag |-> tag, start |-> start]

\* element.indexOfType: 0-based position among the siblings of the same tag
IndexOfType(kids, i) == Cardinality({j \in 1..(i - 1) : kids[j].tag = kids[i].tag})

\* element.closest('ol, ul') for an li with the ancestors parent, grand
ClosestList(doc) ==
    IF doc.parent.tag \in {"ol", "ul"}
    THEN doc.parent
    ELSE IF ~doc.grand.null /\ doc.grand.tag \in {"ol", "ul"}
         THEN doc.grand
         ELSE NoElement

----------------------------------------------------------------------------
(* ordered.type.js                                                         *)

lowerAlpha == {sLowerAlpha, sLowerLatin}

upperAlpha == {sUpperAlpha, sUpperLatin}

orderedAlpha == Lower

----------------------------------------------------------------------------
(* renderers.li                                                            *)

Pending == [kind |-> "pending", isNum |-> FALSE, num |-> 0, chars |-> <<>>]

Threw == [kind |-> "threw", isNum |-> FALSE, num |-> 0, chars |-> <<>>]

NoMarker == [kind |-> "none", isNum |-> FALSE, num |-> 0, chars |-> <<>>]

ImageMarker(src) == [kind |-> "image", isNum |-> FALSE, num |-> 0, chars |-> src]

\* <Text>{n}.</Text>
NumberMarker(n) == [kind |-> "text", isNum |-> TRUE, num |-> n, chars |-> <<".">>]

\* <Text>{s}.</Text> and the bullet
TextMarker(s) == [kind |-> "text", isNum |-> FALSE, num |-> 0, chars |-> s]

\* itemStyle.listStyleType || itemStyle.listStyle || listStyle.listStyleType
\*   || listStyle.listStyle || ''
EffectiveListStyleType(doc) ==
    LET list == ClosestList(doc)
        listStyle == IF list.null THEN <<>> ELSE MergeStyles(doc.listStyle)
        itemStyle == MergeStyles(doc.itemStyle)
        a == GetProp(itemStyle, "listStyleType")
        b == GetProp(itemStyle, "listStyle")
        c == GetProp(listStyle, "listStyleType")
        d == GetProp(listStyle, "listStyle")
    IN  IF Truthy(a) THEN a.s
        ELSE IF Truthy(b) THEN b.s
        ELSE IF Truthy(c) THEN c.s
        ELSE IF Truthy(d) THEN d.s
        ELSE <<>>

\* list?.tag === 'ol' || element.parentNode.tag === 'ol'
Ordered(doc) ==
    LET list == ClosestList(doc)
    IN  (~list.null /\ list.tag = "ol") \/ doc.parent.tag = "ol"

\* parseInt(element.parentNode.attributes.start, 10)
ListStart(doc) == ParseInt(doc.parent.start)

\* a walk that ends at the first sibling that is not an li
RECURSIVE WalkBackEndsAtOtherTag(_, _, _, _)
WalkBackEndsAtOtherTag(kids, j, currentIndex, updatedIndex) ==
    LET startValue == ParseInt(kids[j].value)
    IN  IF kids[j].tag # "li"
        THEN updatedIndex
        ELSE IF ~startValue.nan
        THEN startValue.val + (currentIndex - IndexOfType(kids, j)) - 1
        ELSE IF j > 1
             THEN WalkBackEndsAtOtherTag(kids, j - 1, currentIndex, updatedIndex)
             ELSE updatedIndex

\* the do/while over previousElementSibling, from the element at position j
RECURSIVE WalkBack(_, _, _, _)
WalkBack(kids, j, currentIndex, updatedIndex) ==
    LET startValue == ParseInt(kids[j].value)
    IN  IF kids[j].tag = "li" /\ ~startValue.nan
        THEN startValue.val + (currentIndex - IndexOfType(kids, j)) - 1
        ELSE IF j > 1
             THEN WalkBack(kids, j - 1, currentIndex, updatedIndex)
             ELSE updatedIndex

UpdatedIndex(doc, i) ==
    LET currentIndex == IndexOfType(doc.kids, i)
        start == ListStart(doc)
        offset == IF start.nan THEN 0 ELSE start.val - 1
    IN  WalkBack(doc.kids, i, currentIndex, currentIndex + offset)

\* listStyleType.match(/\((.*?)\)/): the text between the first "(" and the
\* first ")" after it; no match when there is none
FirstIndex(s, c) ==
    IF \E k \in 1..Len(s) : s[k] = c
    THEN CHOOSE k \in 1..Len(s) : s[k] = c /\ \A m \in 1..(k - 1) : s[m] # c
    ELSE 0

UrlMatch(s) ==
    LET open == FirstIndex(s, "(")
        rest == SubSeq(s, open + 1, Len(s))
        close == FirstIndex(rest, ")")
    IN  IF open = 0 \/ close = 0
        THEN [matched |-> FALSE, group |-> <<>>]
        ELSE [matched |-> TRUE, group |-> SubSeq(rest, 1, close - 1)]

\* .replace(/(['"])/g, '')
StripQuotes(s) == SelectSeq(s, LAMBDA c : c \notin {"'", "\""})

\* orderedAlpha[updatedIndex].toLowerCase(): indexing outside the array is
\* undefined, and the method call on it raises TypeError
AlphaMarker(updatedIndex, upperCase) ==
    IF updatedIndex < 0 \/ updatedIndex >= Len(orderedAlpha)
    THEN Threw
    ELSE LET letter == <<orderedAlpha[updatedIndex + 1]>>
         IN  TextMarker((IF upperCase THEN ToUpperCase(letter) ELSE ToLowerCase(letter))
                            \o <<".">>)

\* stands for the character U+2022
bullet == "*"

RenderLi(doc, i) ==
    LET listStyleType == EffectiveListStyleType(doc)
    IN  IF Includes(listStyleType, sNone)
        THEN NoMarker
        ELSE IF Includes(listStyleType, sUrlOpen)
        THEN LET m == UrlMatch(listStyleType)
             IN  IF m.matched THEN ImageMarker(StripQuotes(m.group)) ELSE Threw
        ELSE IF Ordered(doc)
        THEN LET updatedIndex == UpdatedIndex(doc, i)
             IN  IF listStyleType \in lowerAlpha
                 THEN AlphaMarker(updatedIndex, FALSE)
                 ELSE IF listStyleType \in upperAlpha
                 THEN AlphaMarker(updatedIndex, TRUE)
                 ELSE IF listStyleType = sLowerRoman
                 THEN TextMarker(ToLowerCase(toRoman(IndexOfType(doc.kids, i) + 1)) \o <<".">>)
                 ELSE IF listStyleType = sUpperRoman
                 THEN TextMarker(ToUpperCase(toRoman(IndexOfType(doc.kids, i) + 1)) \o <<".">>)
                 ELSE NumberMarker(updatedIndex + 1)
        ELSE TextMarker(<<bullet>>)

\* the harness renders one li of the list
RenderLiCall ==
    /\ pc = "li"
    /\ \E i \in 1..Len(listDoc.kids) :
          /\ listDoc.kids[i].tag = "li"
          /\ liIndex' = i
          /\ liOut' = RenderLi(listDoc, i)
    /\ pc' = "liDone"
    /\ UNCHANGED <<listDoc, tableDoc, colsOut, tableOut, cellOut,
                   rInput, rNum, rEntry, rQuot, rResult>>


----------------------------------------------------------------------------
(* Inputs of the list resolver                                             *)

RECURSIVE SeqsUpTo(_, _)
SeqsUpTo(S, n) ==
    IF n = 0
    THEN {<<>>}
    ELSE LET shorter == SeqsUpTo(S, n - 1)
         IN  shorter \cup {Append(q, x) : q \in {r \in shorter : Len(r) = n - 1}, x \in S}

Attr(chars) == Str(chars)

SiblingKinds ==
    { [tag |-> "li", value |-> Undef],
      [tag |-> "li", value |-> Attr(<<"x">>)],
      [tag |-> "li", value |-> Attr(<<"5">>)],
      [tag |-> "div", value |-> Attr(<<"9">>)] }

Ancestries ==
    {[parent |-> Element("ol", st), grand |-> NoElement] :
        st \in {Undef, Attr(<<"3">>), Attr(<<"x">>), Attr(<<"-", "5">>), Attr(<<"2", "7">>)}}
    \cup {[parent |-> Element("ul", st), grand |-> NoElement] :
            st \in {Undef, Attr(<<"3">>)}}
    \cup {[parent |-> Element("div", Undef), grand |-> g] :
            g \in {NoElement, Element("ol", Attr(<<"4">>)), Element("ol", Undef),
                   Element("ul", Attr(<<"4">>))}}
    \cup {[parent |-> Element("div", Attr(<<"3">>)), grand |-> Element("ol", Undef)]}

TypeStrings ==
    {sNone, sDecimal, sLowerAlpha, sLowerLatin, sUpperAlpha, sUpperLatin,
     sLowerRoman, sUpperRoman, sUrlPng, sUrlQuoted, sUrlUnclosed, sSquare,
     sInsideNone}

ListStyleInputs ==
    {[item |-> <<>>, list |-> <<[listStyleType |-> Str(t)]>>] : t \in TypeStrings}
    \cup
    { [item |-> <<>>, list |-> <<>>],
      [item |-> <<>>, list |-> <<[listStyle |-> Str(sLowerRoman)]>>],
      [item |-> <<[listStyleType |-> Str(sUpperAlpha)]>>,
       list |-> <<[listStyleType |-> Str(sNone)]>>],
      [item |-> <<[listStyle |-> Str(sNone)], [listStyle |-> Str(sDecimal)]>>,
       list |-> <<[listStyleType |-> Str(sLowerAlpha)]>>],
      [item |-> <<[listStyleType |-> Str(<<>>), listStyle |-> Str(sUpperRoman)]>>,
       list |-> <<[listStyleType |-> Str(sDecimal)]>>] }

NoListDoc ==
    [parent |-> Element("div", Undef), grand |-> NoElement, kids |-> <<>>,
     itemStyle |-> <<>>, listStyle |-> <<>>]

NoTableDoc == [hasTable |-> FALSE, style |-> <<>>, kids |-> <<>>]

InitList ==
    /\ pc = "li"
    /\ \E a \in Ancestries :
          \E k \in SeqsUpTo(SiblingKinds, MaxSiblings) :
             \E st \in ListStyleInputs :
                listDoc = [parent |-> a.parent, grand |-> a.grand, kids |-> k,
                           itemStyle |-> st.item, listStyle |-> st.list]
    /\ liIndex = 0
    /\ liOut = Pending
    /\ tableDoc = NoTableDoc
    /\ colsOut = 0
    /\ tableOut = <<>>
    /\ cellOut = <<>>
    /\ rInput = 0
    /\ rNum = 0
    /\ rEntry = 1
    /\ rQuot = 0
    /\ rResult = <<>>

NextList == RenderLiCall

SpecList == InitList /\ [][NextList]_vars

InitRoman ==
    /\ pc = "forEach"
    /\ rInput \in (0 - MaxNegRoman)..MaxRoman
    /\ rNum = rInput
    /\ rEntry = 1
    /\ rQuot = 0
    /\ rResult = <<>>
    /\ listDoc = NoListDoc
    /\ liIndex = 0
    /\ liOut = Pending
    /\ tableDoc = NoTableDoc
    /\ colsOut = 0
    /\ tableOut = <<>>
    /\ cellOut = <<>>

NextRoman == RomanForEach \/ RomanWhileBody \/ RomanWhileExit

SpecRoman == InitRoman /\ [][NextRoman]_vars


----------------------------------------------------------------------------
(* Table grid: childElements, getRows, getMaxColumns                       *)

sCollapse == <<"c", "o", "l", "l", "a", "p", "s", "e">>

sSeparate == <<"s", "e", "p", "a", "r", "a", "t", "e">>

\* childElements(element, tagNames): the children that are element nodes
\* with one of the tags
childElements(element, tagNames) ==
    SelectSeq(element.kids, LAMBDA child : child.element /\ child.tag \in tagNames)

RECURSIVE ConcatRows(_)
ConcatRows(sections) ==
    IF sections = <<>>
    THEN <<>>
    ELSE childElements(Head(sections), {"tr"}) \o ConcatRows(Tail(sections))

getRows(table) ==
    childElements(table, {"tr"}) \o ConcatRows(childElements(table, {"tbody", "thead"}))

\* the forEach over a row's td/th children
RECURSIVE ColCountFrom(_, _)
ColCountFrom(cols, colCount) ==
    IF cols = <<>>
    THEN colCount
    ELSE LET colspan == ParseInt(Head(cols).colspan)
         IN  ColCountFrom(Tail(cols),
                          IF colspan.nan THEN colCount + 1 ELSE colCount + colspan.val)

ColCount(row) == ColCountFrom(childElements(row, {"td", "th"}), 0)

RECURSIVE MathMax(_, _)
MathMax(first, others) ==
    IF others = <<>>
    THEN first
    ELSE MathMax(IF Head(others) > first THEN Head(others) ELSE first, Tail(others))

\* the variant the source keeps in a comment counts cells, ignoring colspan
GetMaxColumnsCountingCells(doc) ==
    IF ~doc.hasTable
    THEN 1
    ELSE LET rows == getRows(doc)
         IN  MathMax(1, [r \in 1..Len(rows) |-> Len(childElements(rows[r], {"td", "th"}))])

\* getMaxColumns(table); doc.hasTable = FALSE stands for a null table
getMaxColumns(doc) ==
    IF ~doc.hasTable
    THEN 1
    ELSE LET rows == getRows(doc)
         IN  MathMax(1, [r \in 1..Len(rows) |-> ColCount(rows[r])])

----------------------------------------------------------------------------
(* renderCell and renderers.table                                          *)

\* every tr below the root of the document, in document order
RECURSIVE AllRows(_)
AllRows(kids) ==
    IF kids = <<>>
    THEN <<>>
    ELSE LET kid == Head(kids)
         IN  (IF kid.element /\ kid.tag = "tr"
              THEN <<kid>>
              ELSE childElements(kid, {"tr"})) \o AllRows(Tail(kids))

CellsOfRow(rows, r) ==
    LET kids == rows[r].kids
        at == SelectSeq([k \in 1..Len(kids) |-> k],
                        LAMBDA k : kids[k].element /\ kids[k].tag \in {"td", "th"})
    IN  [k \in 1..Len(at) |-> [row |-> r, pos |-> at[k]]]

RECURSIVE CellsFrom(_, _)
CellsFrom(rows, r) ==
    IF r > Len(rows) THEN <<>> ELSE CellsOfRow(rows, r) \o CellsFrom(rows, r + 1)

\* the td/th elements the harness hands to renderCell, in document order
AllCells(doc) == CellsFrom(AllRows(doc.kids), 1)

CellAt(doc, c) == AllRows(doc.kids)[c.row].kids[c.pos]

CellIndexOfType(doc, c) == IndexOfType(AllRows(doc.kids)[c.row].kids, c.pos)

Pct(units) == [t |-> "pct", n |-> units, s |-> <<"%">>]

\* (num / den).toFixed(5) in units of 0.00001
ToFixed5(num, den) ==
    IF num >= 0
    THEN (2 * num * 100000 + den) \div (2 * den)
    ELSE 0 - ((2 * (0 - num) * 100000 + den) \div (2 * den))

TableStyles(doc) == MergeStyles(doc.style)

\* (tableStyles as any).borderSpacing &&
\*   (tableStyles as any).borderCollapse !== 'collapse'
SpacingModel(tableStyles) ==
    /\ Truthy(GetProp(tableStyles, "borderSpacing"))
    /\ GetProp(tableStyles, "borderCollapse") # Str(sCollapse)

InitialBaseStyles(tableStyles) ==
    [border |-> GetProp(tableStyles, "border"),
     borderColor |-> GetProp(tableStyles, "borderColor"),
     borderWidth |-> GetProp(tableStyles, "borderWidth"),
     borderStyle |-> GetProp(tableStyles, "borderStyle")]

CollapseBordersEveryCell(tableStyles, indexOfType) ==
    [borderRightWidth |-> Num(0), borderBottomWidth |-> Num(0),
     borderLeftWidth |-> GetProp(tableStyles, "borderWidth"),
     borderTopWidth |-> GetProp(tableStyles, "borderWidth")]

\* the else branch of the border model
CollapseBorders(tableStyles, indexOfType) ==
    IF indexOfType # 0
    THEN [borderRightWidth |-> Num(0), borderBottomWidth |-> Num(0),
          borderLeftWidth |-> GetProp(tableStyles, "borderWidth"),
          borderTopWidth |-> GetProp(tableStyles, "borderWidth")]
    ELSE [borderRightWidth |-> Num(0), borderBottomWidth |-> Num(0)]

BorderModelStyles(tableStyles, indexOfType) ==
    IF SpacingModel(tableStyles)
    THEN [width |-> GetProp(tableStyles, "borderWidth"),
          margin |-> GetProp(tableStyles, "borderSpacing")]
    ELSE CollapseBorders(tableStyles, indexOfType)

\* baseStyles.width from basePercent and the colspan attribute
PercentWidth(colCount, element) ==
    LET colspan == ParseInt(element.colspan)
    IN  IF Truthy(element.colspan) /\ ~colspan.nan
        THEN [width |-> Pct(ToFixed5(colspan.val * 100, colCount))]
        ELSE [width |-> Pct(ToFixed5(100, colCount))]

BaseStylesWidthOnlyWhenCollapsed(doc, c) ==
    LET tableStyles == TableStyles(doc)
        models == BorderModelStyles(tableStyles, CellIndexOfType(doc, c))
    IN  IF SpacingModel(tableStyles)
        THEN models @@ InitialBaseStyles(tableStyles)
        ELSE PercentWidth(getMaxColumns(doc), CellAt(doc, c))
                 @@ models @@ InitialBaseStyles(tableStyles)

\* baseStyles when renderCell returns
BaseStyles(doc, c) ==
    LET tableStyles == TableStyles(doc)
    IN  PercentWidth(getMaxColumns(doc), CellAt(doc, c))
            @@ BorderModelStyles(tableStyles, CellIndexOfType(doc, c))
            @@ InitialBaseStyles(tableStyles)

RenderCellThrowsWithoutRows(doc, c) ==
    IF ~doc.hasTable \/ getRows(doc) = <<>>
    THEN [cell |-> c, threw |-> TRUE, base |-> <<>>, style |-> <<>>]
    ELSE [cell |-> c, threw |-> FALSE, base |-> BaseStyles(doc, c),
          style |-> CellAt(doc, c).style @@ BaseStyles(doc, c)]

\* renderCell: element.closest('table') is the table of the document, or
\* null when the document has none
renderCell(doc, c) ==
    IF ~doc.hasTable
    THEN [cell |-> c, threw |-> TRUE, base |-> <<>>, style |-> <<>>]
    ELSE [cell |-> c, threw |-> FALSE, base |-> BaseStyles(doc, c),
          style |-> CellAt(doc, c).style @@ BaseStyles(doc, c)]

RenderTableOnlyWhenCollapseSet(doc) ==
    LET tableStyles == TableStyles(doc)
    IN  IF GetProp(tableStyles, "borderCollapse") = Str(sCollapse)
        THEN [borderLeftWidth |-> Num(0), borderTopWidth |-> Num(0)]
        ELSE <<>>

\* renderers.table: the overrides
RenderTable(doc) ==
    LET tableStyles == TableStyles(doc)
    IN  IF \/ ~Truthy(GetProp(tableStyles, "borderSpacing"))
           \/ GetProp(tableStyles, "borderCollapse") = Str(sCollapse)
        THEN [borderLeftWidth |-> Num(0), borderTopWidth |-> Num(0)]
        ELSE <<>>

\* a direct call of the exported getMaxColumns
GetMaxColumnsCall ==
    /\ pc = "cols"
    /\ colsOut' = getMaxColumns(tableDoc)
    /\ pc' = IF tableDoc.hasTable THEN "table" ELSE "cells"
    /\ UNCHANGED <<listDoc, liIndex, liOut, tableDoc, tableOut, cellOut,
                   rInput, rNum, rEntry, rQuot, rResult>>

\* the harness renders the table element
RenderTableCall ==
    /\ pc = "table"
    /\ tableOut' = RenderTable(tableDoc)
    /\ pc' = "cells"
    /\ UNCHANGED <<listDoc, liIndex, liOut, tableDoc, colsOut, cellOut,
                   rInput, rNum, rEntry, rQuot, rResult>>

\* the harness renders the next td/th in document order
RenderCellCall ==
    /\ pc = "cells"
    /\ Len(cellOut) < Len(AllCells(tableDoc))
    /\ LET out == renderCell(tableDoc, AllCells(tableDoc)[Len(cellOut) + 1])
       IN  /\ cellOut' = Append(cellOut, out)
           /\ pc' = IF out.threw THEN "threw" ELSE "cells"
    /\ UNCHANGED <<listDoc, liIndex, liOut, tableDoc, colsOut, tableOut,
                   rInput, rNum, rEntry, rQuot, rResult>>

----------------------------------------------------------------------------
(* Inputs of the table resolver                                            *)

Cell(tag, colspan, style) ==
    [element |-> TRUE, tag |-> tag, colspan |-> colspan, style |-> style, kids |-> <<>>]

TextNode ==
    [element |-> FALSE, tag |-> "#text", colspan |-> Undef, style |-> <<>>, kids |-> <<>>]

Row(cells) ==
    [element |-> TRUE, tag |-> "tr", colspan |-> Undef, style |-> <<>>, kids |-> cells]

Section(tag, rows) ==
    [element |-> TRUE, tag |-> tag, colspan |-> Undef, style |-> <<>>, kids |-> rows]

GridCellKinds ==
    { Cell("td", Undef, <<>>),
      Cell("td", Attr(<<"2">>), <<>>),
      Cell("th", Attr(<<"x">>), <<>>),
      Cell("td", Attr(<<"0">>), <<>>) }

BorderCellKinds ==
    GridCellKinds \cup
    { Cell("th", Undef, <<>>),
      Cell("td", Attr(<<"3">>), [width |-> Num(40)]),
      Cell("td", Undef, [borderRightWidth |-> Num(2)]),
      Cell("span", Attr(<<"2">>), <<>>),
      TextNode }

Wrappers == {"tr", "tbody", "tfoot"}

SeqsOfLen(S, n) == {q \in SeqsUpTo(S, n) : Len(q) = n}

GridTableStyles ==
    { <<[borderWidth |-> Num(1)]>>,
      <<[borderWidth |-> Num(1), borderSpacing |-> Str(<<"2">>)]>> }

BorderTableStyles ==
    {<<sp @@ co @@ bw>> :
        sp \in {<<>>, [borderSpacing |-> Str(<<>>)], [borderSpacing |-> Str(<<"2">>)]},
        co \in {<<>>, [borderCollapse |-> Str(sCollapse)], [borderCollapse |-> Str(sSeparate)]},
        bw \in {<<>>, [borderWidth |-> Num(1)]}}
    \cup
    { <<>>,
      <<[borderSpacing |-> Str(<<"2">>), borderWidth |-> Num(1)],
        [borderCollapse |-> Str(sCollapse)]>>,
      <<[borderSpacing |-> Str(<<"2">>)], [borderSpacing |-> Str(<<>>)]>>,
      <<[borderCollapse |-> Str(sCollapse)],
        [borderCollapse |-> Str(sSeparate), borderSpacing |-> Str(<<"2">>)]>>,
      <<[border |-> Str(<<"1", "p", "x">>)]>> }

Kid(w, cells) == IF w = "tr" THEN Row(cells) ELSE Section(w, <<Row(cells)>>)

\* a table of at most r more children and c more cells after the children
\* kids: a child is a row, or a section around one row
RECURSIVE GridDocFrom(_, _, _, _)
GridDocFrom(r, c, kids, st) ==
    \/ tableDoc = [hasTable |-> TRUE, style |-> st, kids |-> kids]
    \/ /\ r > 0
       /\ \E n \in 0..c :
             \E w \in Wrappers :
                \E cells \in SeqsOfLen(GridCellKinds, n) :
                   GridDocFrom(r - 1, c - n, Append(kids, Kid(w, cells)), st)

InitGridDoc == \E st \in GridTableStyles : GridDocFrom(MaxRows, MaxCells, <<>>, st)

InitBorderDoc ==
    \/ \E st \in BorderTableStyles :
          \E cells \in SeqsUpTo(BorderCellKinds, MaxCells) :
             tableDoc = [hasTable |-> TRUE, style |-> st, kids |-> <<Row(cells)>>]
    \/ \E a \in SeqsOfLen(GridCellKinds, 1) :
          \E b \in SeqsOfLen(GridCellKinds, 2) :
             tableDoc =
                [hasTable |-> TRUE, style |-> <<>>,
                 kids |-> <<Section("tbody", <<Row(a), Row(b)>>),
                            Section("thead", <<Row(a)>>), TextNode,
                            Section("div", <<Row(b)>>)>>]

\* cells of a document that has no table element
InitOrphanDoc ==
    \E cells \in SeqsUpTo(GridCellKinds, MaxCells) :
       tableDoc = [hasTable |-> FALSE, style |-> <<>>, kids |-> <<Row(cells)>>]

InitTable ==
    /\ pc = "cols"
    /\ InitGridDoc \/ InitBorderDoc \/ InitOrphanDoc
    /\ colsOut = 0
    /\ tableOut = <<>>
    /\ cellOut = <<>>
    /\ listDoc = NoListDoc
    /\ liIndex = 0
    /\ liOut = Pending
    /\ rInput = 0
    /\ rNum = 0
    /\ rEntry = 1
    /\ rQuot = 0
    /\ rResult = <<>>

NextTable == GetMaxColumnsCall \/ RenderTableCall \/ RenderCellCall

SpecTable == InitTable /\ [][NextTable]_vars


----------------------------------------------------------------------------
(* Properties of the list resolver, checked under SpecList                 *)

\* the item is ordered and its effective listStyleType selects the default
\* (decimal) branch
DecimalOrdered(doc) ==
    LET t == EffectiveListStyleType(doc)
    IN  /\ Ordered(doc)
        /\ ~Includes(t, sNone)
        /\ ~Includes(t, sUrlOpen)
        /\ t \notin lowerAlpha \cup upperAlpha \cup {sLowerRoman, sUpperRoman}

HasValue(kids, j) == kids[j].tag = "li" /\ ~ParseInt(kids[j].value).nan

\* the first li with an integer value met walking backward from position i
\* (0 when there is none)
ValueSource(kids, i) ==
    IF \E j \in 1..i : HasValue(kids, j)
    THEN CHOOSE j \in 1..i :
            HasValue(kids, j) /\ \A m \in (j + 1)..i : ~HasValue(kids, m)
    ELSE 0

\* C1: an ordered decimal item renders v + (its indexOfType - S.indexOfType)
\* followed by ".", where S is the first li with an integer value v met
\* walking backward from the item through its previous siblings, other tags
\* being skipped; whatever the start attribute of the list.
C1_ValueNumbering ==
    (/\ pc = "liDone"
     /\ DecimalOrdered(listDoc)
     /\ ValueSource(listDoc.kids, liIndex) # 0)
    => LET kids == listDoc.kids
           S == ValueSource(kids, liIndex)
           v == ParseInt(kids[S].value).val
       IN  liOut = NumberMarker(v + (IndexOfType(kids, liIndex) - IndexOfType(kids, S)))

C1_Witness ==
    /\ pc = "liDone"
    /\ DecimalOrdered(listDoc)
    /\ ~ListStart(listDoc).nan
    /\ LET S == ValueSource(listDoc.kids, liIndex)
       IN  /\ S # 0
           /\ S < liIndex
           /\ \E j \in (S + 1)..(liIndex - 1) : listDoc.kids[j].tag # "li"
    /\ liOut = NumberMarker(6)

\* C2: the marker resolution never throws: every rendered item yields no
\* marker, an image marker or a text marker.
C2_NeverThrows ==
    pc = "liDone" => liOut.kind \in {"none", "image", "text"}

\* C3: an ordered decimal item with no integer value on itself or on a
\* preceding li renders s + indexOfType when the closest ol/ul ancestor has
\* a start attribute parsing to s, and indexOfType + 1 otherwise, also when
\* the direct parent is not that ancestor.
C3_StartOfOwningList ==
    (/\ pc = "liDone"
     /\ DecimalOrdered(listDoc)
     /\ ValueSource(listDoc.kids, liIndex) = 0)
    => LET s == ParseInt(ClosestList(listDoc).start)
           i == IndexOfType(listDoc.kids, liIndex)
       IN  liOut = NumberMarker(IF s.nan THEN i + 1 ELSE s.val + i)

----------------------------------------------------------------------------
(* Properties of toRoman, checked under SpecRoman                          *)

\* C4: for every n <= 0 toRoman ends and returns the empty string: no
\* numeral is ever appended for a non-positive input and no error is raised.
C4_NonPositiveIsEmpty ==
    rInput <= 0 => (rResult = <<>> /\ pc # "threw")

----------------------------------------------------------------------------
(* Properties of the table resolver, checked under SpecTable               *)

Span(cell) ==
    LET colspan == ParseInt(cell.colspan)
    IN  IF colspan.nan THEN 1 ELSE colspan.val

RECURSIVE SpanSum(_)
SpanSum(cells) ==
    IF cells = <<>> THEN 0 ELSE Span(Head(cells)) + SpanSum(Tail(cells))

RowSpanSum(row) == SpanSum(childElements(row, {"td", "th"}))

\* C5: getMaxColumns is the largest of 1 and the rows' sums of spans, the
\* rows being those of getRows and a span the colspan when it is an integer
\* and 1 otherwise; it is 1 for a table without rows and for a null table.
C5_MaxColumns ==
    pc # "cols"
    => LET rows == IF tableDoc.hasTable THEN getRows(tableDoc) ELSE <<>>
       IN  /\ colsOut >= 1
           /\ \A r \in 1..Len(rows) : colsOut >= RowSpanSum(rows[r])
           /\ \/ colsOut = 1
              \/ \E r \in 1..Len(rows) : colsOut = RowSpanSum(rows[r])

C5_Witness ==
    /\ pc # "cols"
    /\ tableDoc.hasTable
    /\ colsOut = 3
    /\ LET rows == getRows(tableDoc)
       IN  /\ \E r \in 1..Len(rows) :
                 /\ RowSpanSum(rows[r]) = 3
                 /\ Len(childElements(rows[r], {"td", "th"})) = 2
           /\ \E r \in 1..Len(rows) :
                 /\ RowSpanSum(rows[r]) = 1
                 /\ ParseInt(rows[r].kids[1].colspan).nan
                 /\ rows[r].kids[1].colspan # Undef

Rendered == {k \in 1..Len(cellOut) : ~cellOut[k].threw}

Abs(x) == IF x < 0 THEN 0 - x ELSE x

\* C6: a cell of a table whose own style sets no width gets the percentage
\* c * 100 / getMaxColumns(table) (to five decimals), c being its colspan
\* when it is an integer and 1 otherwise, in the collapse model and in the
\* spacing model alike.
C6_PercentWidth ==
    \A k \in Rendered :
        LET e == cellOut[k]
            element == CellAt(tableDoc, e.cell)
        IN  "width" \notin DOMAIN element.style
            => /\ e.style["width"].t = "pct"
               /\ 2 * Abs(e.style["width"].n * colsOut - Span(element) * 100 * 100000)
                     <= colsOut

C6_Witness ==
    \E k \in Rendered :
        LET e == cellOut[k]
        IN  /\ SpacingModel(TableStyles(tableDoc))
            /\ Span(CellAt(tableDoc, e.cell)) = 2
            /\ colsOut = 3
            /\ e.style["width"] = Pct(6666667)

\* C7: renderCell raises the structural error exactly when the cell has no
\* table ancestor, and then produces no style; a cell of a table always
\* gets its complete style.
C7_ThrowsIffNoTable ==
    /\ (pc = "threw") = (\E k \in 1..Len(cellOut) : cellOut[k].threw)
    /\ \A k \in 1..Len(cellOut) :
          LET e == cellOut[k]
          IN  /\ e.threw = ~tableDoc.hasTable
              /\ e.threw => DOMAIN e.style = {}
              /\ ~e.threw =>
                    {"border", "borderColor", "borderWidth", "borderStyle", "width"}
                        \subseteq DOMAIN e.style

C7_Witness ==
    /\ pc = "threw"
    /\ ~tableDoc.hasTable
    /\ Len(cellOut) = 1
    /\ cellOut[1].threw

BorderProps ==
    {"border", "borderWidth", "borderRightWidth", "borderBottomWidth",
     "borderLeftWidth", "borderTopWidth"}

\* the width a side is drawn with: its own property, else the shorthands
SideWidth(style, side) ==
    IF side \in DOMAIN style
    THEN style[side]
    ELSE IF Truthy(GetProp(style, "borderWidth"))
         THEN style["borderWidth"]
         ELSE GetProp(style, "border")

\* C8 as stated: in the collapse model right and bottom widths are 0, a
\* cell with indexOfType 0 draws no left/top border, and any other cell has
\* left and top widths equal to the table's borderWidth.
C8_CollapseBordersAsStated ==
    \A k \in Rendered :
        LET e == cellOut[k]
            tableStyles == TableStyles(tableDoc)
        IN  ~SpacingModel(tableStyles)
            => /\ GetProp(e.style, "borderRightWidth") = Num(0)
               /\ GetProp(e.style, "borderBottomWidth") = Num(0)
               /\ IF CellIndexOfType(tableDoc, e.cell) = 0
                  THEN /\ ~Truthy(SideWidth(e.style, "borderLeftWidth"))
                       /\ ~Truthy(SideWidth(e.style, "borderTopWidth"))
                  ELSE /\ GetProp(e.style, "borderLeftWidth")
                              = GetProp(tableStyles, "borderWidth")
                       /\ GetProp(e.style, "borderTopWidth")
                              = GetProp(tableStyles, "borderWidth")

\* C8 amended: in the collapse model, for a cell whose own style sets no
\* border property, right and bottom widths are 0; a cell with indexOfType
\* other than 0 has left and top widths set to the table's borderWidth; a
\* cell with indexOfType 0 has no left/top width set and carries the
\* table's borderWidth as its borderWidth, which its left and top sides use.
C8_CollapseBorders ==
    \A k \in Rendered :
        LET e == cellOut[k]
            tableStyles == TableStyles(tableDoc)
            own == CellAt(tableDoc, e.cell).style
        IN  (~SpacingModel(tableStyles) /\ DOMAIN own \cap BorderProps = {})
            => /\ GetProp(e.style, "borderRightWidth") = Num(0)
               /\ GetProp(e.style, "borderBottomWidth") = Num(0)
               /\ e.style["borderWidth"] = GetProp(tableStyles, "borderWidth")
               /\ IF CellIndexOfType(tableDoc, e.cell) = 0
                  THEN /\ {"borderLeftWidth", "borderTopWidth"} \cap DOMAIN e.style = {}
                       /\ Truthy(GetProp(tableStyles, "borderWidth"))
                             => /\ SideWidth(e.style, "borderLeftWidth")
                                      = GetProp(tableStyles, "borderWidth")
                                /\ SideWidth(e.style, "borderTopWidth")
                                      = GetProp(tableStyles, "borderWidth")
                  ELSE /\ {"borderLeftWidth", "borderTopWidth"} \subseteq DOMAIN e.style
                       /\ e.style["borderLeftWidth"] = GetProp(tableStyles, "borderWidth")
                       /\ e.style["borderTopWidth"] = GetProp(tableStyles, "borderWidth")

C8_Witness ==
    /\ ~SpacingModel(TableStyles(tableDoc))
    /\ GetProp(TableStyles(tableDoc), "borderWidth") = Num(1)
    /\ Len(cellOut) = 2
    /\ Rendered = {1, 2}
    /\ \A k \in {1, 2} : DOMAIN CellAt(tableDoc, cellOut[k].cell).style = {}
    /\ CellIndexOfType(tableDoc, cellOut[1].cell) = 0
    /\ SideWidth(cellOut[1].style, "borderLeftWidth") = Num(1)
    /\ CellIndexOfType(tableDoc, cellOut[2].cell) = 1
    /\ cellOut[2].style["borderLeftWidth"] = Num(1)
    /\ cellOut[2].style["borderRightWidth"] = Num(0)

RECURSIVE WidthSum(_, _)
WidthSum(r, k) ==
    IF k = 0
    THEN 0
    ELSE (IF cellOut[k].cell.row = r THEN cellOut[k].style["width"].n ELSE 0)
             + WidthSum(r, k - 1)

PlainColspan(cell) ==
    \/ cell.colspan = Undef
    \/ (~ParseInt(cell.colspan).nan /\ ParseInt(cell.colspan).val > 0)

\* C9: when every cell of a table is resolved (colspans absent or positive
\* integers, no width of its own), the percentage widths of the cells of
\* each row, whatever the row sits in, sum to at most 100%, and to 100% in
\* a row with the largest sum of colspans (up to the rounding of the five
\* decimals, half a unit per cell).
C9_RowWidthsFit ==
    LET rows == AllRows(tableDoc.kids)
        cells == AllCells(tableDoc)
    IN  (/\ pc = "cells"
         /\ tableDoc.hasTable
         /\ Len(cellOut) = Len(cells)
         /\ \A k \in 1..Len(cells) :
               /\ PlainColspan(CellAt(tableDoc, cells[k]))
               /\ "width" \notin DOMAIN CellAt(tableDoc, cells[k]).style)
        => \A r \in 1..Len(rows) :
              LET n == Len(childElements(rows[r], {"td", "th"}))
                  sum == WidthSum(r, Len(cellOut))
              IN  /\ sum <= 100 * 100000 + n
                  /\ (n > 0 /\ \A q \in 1..Len(rows) : RowSpanSum(rows[q]) <= RowSpanSum(rows[r]))
                        => sum >= 100 * 100000 - n

CellTookCollapse(e) ==
    /\ GetProp(e.base, "borderRightWidth") = Num(0)
    /\ GetProp(e.base, "borderBottomWidth") = Num(0)
    /\ "margin" \notin DOMAIN e.base

CellTookSpacing(e) ==
    /\ "margin" \in DOMAIN e.base
    /\ e.base["margin"] = GetProp(TableStyles(tableDoc), "borderSpacing")
    /\ {"borderRightWidth", "borderBottomWidth"} \cap DOMAIN e.base = {}

\* C10: for every table style the table renderer zeroes the table's left
\* and top border widths exactly when renderCell takes the collapse branch
\* for the table's cells, and leaves them untouched exactly when renderCell
\* takes the spacing branch.
C10_SameBorderModel ==
    \A k \in Rendered :
        LET e == cellOut[k]
        IN  /\ (/\ GetProp(tableOut, "borderLeftWidth") = Num(0)
                /\ GetProp(tableOut, "borderTopWidth") = Num(0)) = CellTookCollapse(e)
            /\ (DOMAIN tableOut = {}) = CellTookSpacing(e)
            /\ CellTookCollapse(e) # CellTookSpacing(e)

C10_Witness ==
    /\ DOMAIN tableOut = {}
    /\ Len(tableDoc.style) = 2
    /\ \E k \in Rendered : CellTookSpacing(cellOut[k])


====
